---------------------------- MODULE Spec2Model ----------------------------
(***************************************************************************)
(* Model of youtube_dl/extractor/viu.py: the four Viu extractors           *)
(*   ViuBaseIE / ViuIE / ViuPlaylistIE  (www.viu.com catalogue API),       *)
(*   ViuOTTIE                           (viu.com/ott regional store),      *)
(*   ViuTVIE                            (viu.tv broadcaster).              *)
(*                                                                         *)
(* A Python dict is a TLA+ function whose DOMAIN is the set of keys that   *)
(* are present; d.get(k) is "k \in DOMAIN d" followed by d[k].  Strings    *)
(* that the code only copies are TLA+ strings; strings that the code       *)
(* formats into a URL and later parses back with a regular expression      *)
(* are sequences of one-character strings.                                 *)
(*                                                                         *)
(* Responses range over well-typed JSON: a field is absent, or holds a     *)
(* value of the type the code expects (possibly an empty one).  Fields the *)
(* code subscripts unconditionally (title, href, ccs_product_id, synopsis, *)
(* episodes) are taken to be present.                                      *)
(***************************************************************************)
EXTENDS Integers, Sequences, FiniteSets, TLC

VARIABLES
    \* ---- www.viu.com session (ViuBaseIE and its two subclasses)
    viu_ie,        \* the class of this extractor instance
    viu_pc,        \* "idle" | "new" (constructed) | "ready" (initialised) | "done" (resolved)
    viu_geo,       \* what geo_verification_headers() returns in this process
    auth_token,    \* ViuBaseIE._auth_token
    viu_in,        \* the last operation and its inputs
    viu_log,       \* requests issued by the last operation, in order
    viu_out        \* outcome of the last operation

VARIABLES
    \* ---- viu.com/ott (ViuOTTIE)
    ott_pc,        \* "idle" | "start" (a URL is about to be resolved) | "done"
    noplaylist,    \* the downloader's 'noplaylist' parameter
    ott_url,       \* the URL handed to _real_extract (text and smuggled data)
    ott_depth,     \* 0 for the caller's URL, 1 for an entry of its playlist, ...
    ott_in,        \* the responses the last resolution received
    ott_log,       \* requests issued by the last resolution, in order
    ott_out        \* outcome of the last resolution

VARIABLES
    \* ---- viu.tv (ViuTVIE)
    tv_pc,         \* "idle" | "start" | "vod" | "extract" | "done": where _real_extract is
    tv_programme,  \* what api.viu.tv answers for the programme
    tv_url,        \* the URL handed to _real_extract
    tv_depth,      \* 0 for the caller's URL, 1 for an entry of its playlist, ...
    tv_ref,        \* the playlist entry being resolved, if the URL came from one
    tv_ep,         \* ep_data, once located
    tv_log,        \* requests issued by this resolution, with their answers
    tv_out         \* outcome of this resolution

viu_vars == <<viu_ie, viu_pc, viu_geo, auth_token, viu_in, viu_log, viu_out>>
ott_vars == <<ott_pc, noplaylist, ott_url, ott_depth, ott_in, ott_log, ott_out>>
tv_vars  == <<tv_pc, tv_programme, tv_url, tv_depth, tv_ref, tv_ep, tv_log, tv_out>>

vars == <<viu_vars, ott_vars, tv_vars>>

---------------------------------------------------------------------------
(* Bounds *)

MaxItems == 5      \* longest 'item' list of a container/load response
MaxSiblings == 2   \* longest 'product' list of a series
MaxEpisodes == 2   \* longest 'episodes' list of a programme
MaxDepth == 2      \* how deep the host follows playlist entries

---------------------------------------------------------------------------
(* Python helpers *)

\* a.update(b) on dicts: keys of b win.
Update(a, b) == b @@ a

\* d.get(k) is truthy: key present and value not the empty string / zero.
TruthyStr(d, k) == k \in DOMAIN d /\ d[k] # ""
TruthyInt(d, k) == k \in DOMAIN d /\ d[k] # 0

\* All dicts over optional keys ks whose value for key k lies in V[k].
Dicts(ks, V) ==
    UNION { { f \in [K -> UNION { V[k] : k \in K }] : \A k \in K : f[k] \in V[k] }
            : K \in SUBSET ks }

\* All sequences over S of length at most n.
SeqUpTo(S, n) == UNION { [1..k -> S] : k \in 0..n }

\* compat_str applied to a small non-negative integer.
Digits == <<"0", "1", "2", "3", "4", "5", "6", "7", "8", "9">>
compat_str_int(n) == Digits[n + 1]

NoInput   == [op |-> "none"]
NoOutcome == [kind |-> "none"]

---------------------------------------------------------------------------
(* ViuBaseIE *)

NoToken == "<unset>"
Tokens  == {"tokA", "tokB"}

AUTH_HEADER == "X-VIU-AUTH"

GeoHeaderSets == { <<>>, "Ytdl-request-proxy" :> "proxy" }

AuthQuery ==
    [acct |-> "test", appid |-> "viu_desktop", fmt |-> "json", iid |-> "guest",
     languageid |-> "default", platform |-> "desktop", userid |-> "guest",
     useridtype |-> "guest", ver |-> "1.0"]

\* Faulty variant, used to test the sensitivity of the properties: the stored token is never attached.
call_api_headers_no_token(geo, token, kw_headers) ==
    Update(geo, kw_headers)

\* Headers sent by _call_api: geo headers, then the stored token, then the
\* caller's headers, each update overriding the previous ones.
call_api_headers(geo, token, kw_headers) ==
    Update(Update(geo, AUTH_HEADER :> token), kw_headers)

\* The request _call_api issues.
call_api_request(geo, token, path, kw_headers) ==
    [url     |-> "https://www.viu.com/api/" \o path,
     headers |-> call_api_headers(geo, token, kw_headers)]

\* What _call_api does with the 'response' member of the downloaded JSON.
call_api_unwrap(ie_name, response) ==
    IF ~("status" \in DOMAIN response /\ response.status = "success")
    THEN IF "message" \in DOMAIN response
         THEN [kind     |-> "ExtractorError",
               expected |-> TRUE,
               msg      |-> ie_name \o " said: " \o response.message]
         ELSE [kind |-> "KeyError", key |-> "message"]
    ELSE [kind |-> "response", response |-> response]

\* The envelopes' status part: 'status' and 'message' are each optional.
StatusDicts ==
    Dicts({"status", "message"},
          [status |-> {"success", "error"}, message |-> {"Not allowed"}])

\* Caller-supplied headers= keyword of _call_api.
KwHeaderSets ==
    { <<>>, "Referer" :> "ref", AUTH_HEADER :> "other", AUTH_HEADER :> "tokA" }

ApiPaths == {"clip/load", "container/load"}

\* sorted(seq, key=...): Python's stable sort; keys[i] is the key of s[i].
sorted(s, keys) ==
    LET n == Len(s)
        rank(i) == 1 + Cardinality({ j \in 1..n :
                          \/ keys[j] < keys[i]
                          \/ keys[j] = keys[i] /\ j < i })
    IN  [p \in 1..n |-> s[CHOOSE i \in 1..n : rank(i) = p]]

\* _sort_formats (youtube_dl/extractor/common.py) orders the formats from
\* worst to best; a format is represented by its height.
sort_formats(formats) ==
    sorted(formats, [i \in 1..Len(formats) |->
                        IF "height" \in DOMAIN formats[i] THEN formats[i].height ELSE -1])

\* Outcomes of the manifest-extraction collaborator.
FormatLists == { <<>>, << [height |-> 720] >>, << [height |-> 720], [height |-> 480] >> }
ExtractFatal    == { [ok |-> FALSE] } \cup { [ok |-> TRUE, formats |-> f] : f \in FormatLists \ {<<>>} }
ExtractNonFatal == { [ok |-> TRUE, formats |-> f] : f \in FormatLists }

---------------------------------------------------------------------------
(* ViuIE *)

VideoIds == {"1116705532"}

VideoDatas ==
    { d @@ [title |-> "Ep 1", href |-> "h.m3u8"] :
      d \in Dicts({"urlpathd", "urlpath", "tdirforwhole", "jwhlsfile", "subtitle_en_srt"},
                  [urlpathd |-> {"", "pd"}, urlpath |-> {"", "p"},
                   tdirforwhole |-> {"", "dir"}, jwhlsfile |-> {"", "jw.m3u8"},
                   subtitle_en_srt |-> {"sub.srt"}]) }

\* video_data.get('urlpathd') or video_data.get('urlpath'); the value is only
\* used when truthy, so every falsy result is written "".
url_path_of(video_data) ==
    IF TruthyStr(video_data, "urlpathd") THEN video_data.urlpathd
    ELSE IF TruthyStr(video_data, "urlpath") THEN video_data.urlpath
    ELSE ""

\* Faulty variant, used to test the sensitivity of the properties: the three fields are joined in the wrong order.
m3u8_url_of_swapped(video_data) ==
    IF /\ url_path_of(video_data) # ""
       /\ TruthyStr(video_data, "tdirforwhole")
       /\ TruthyStr(video_data, "jwhlsfile")
    THEN video_data.tdirforwhole \o "/" \o url_path_of(video_data)
                                 \o "/" \o video_data.jwhlsfile
    ELSE video_data.href

m3u8_url_of(video_data) ==
    IF /\ url_path_of(video_data) # ""
       /\ TruthyStr(video_data, "tdirforwhole")
       /\ TruthyStr(video_data, "jwhlsfile")
    THEN url_path_of(video_data) \o "/" \o video_data.tdirforwhole
                                 \o "/" \o video_data.jwhlsfile
    ELSE video_data.href

\* Keys matching ^subtitle_(?P<lang>[^_]+)_(?P<ext>(vtt|srt)).
viu_subtitles(video_data) ==
    IF "subtitle_en_srt" \in DOMAIN video_data
    THEN [en |-> << [url |-> video_data.subtitle_en_srt, ext |-> "srt"] >>]
    ELSE <<>>

ViuIE_result(geo, token, video_id, status, video_data, hls) ==
    LET req == call_api_request(geo, token, "clip/load", <<>>)
        r   == call_api_unwrap("Viu", status @@ [item |-> <<video_data>>])
    IN  IF r.kind # "response" THEN [log |-> <<req>>, out |-> r]
        ELSE LET vd  == r.response.item[1]
                 m3u == [url |-> m3u8_url_of(vd), kind |-> "m3u8"]
             IN  IF ~hls.ok
                 THEN [log |-> <<req, m3u>>,
                       out |-> [kind |-> "ExtractorError", expected |-> FALSE,
                                msg |-> "Failed to download m3u8 information"]]
                 ELSE [log |-> <<req, m3u>>,
                       out |-> [kind      |-> "MediaItem",
                                id        |-> video_id,
                                title     |-> vd.title,
                                episode   |-> vd.title,
                                formats   |-> sort_formats(hls.formats),
                                subtitles |-> viu_subtitles(vd)]]

---------------------------------------------------------------------------
(* ViuPlaylistIE *)

PlaylistIds == {"22461380"}
ItemIds     == {0, 1, 2}

PlaylistItems == Dicts({"id"}, [id |-> ItemIds])

Containers ==
    { t @@ i : t \in Dicts({"title"}, [title |-> {"The Good Wife"}]),
               i \in { <<>> } \cup { [item |-> s] : s \in SeqUpTo(PlaylistItems, MaxItems) } }

viu_url_result(item) ==
    [type   |-> "url",
     url    |-> "viu:" \o compat_str_int(item.id),
     ie_key |-> "Viu",
     id     |-> compat_str_int(item.id)]

\* Faulty variant, used to test the sensitivity of the properties: an entry is skipped only when the 'id' key is absent.
viu_playlist_entries_keep_falsy(playlist_data) ==
    LET items == IF "item" \in DOMAIN playlist_data THEN playlist_data.item ELSE <<>>
        kept  == SelectSeq(items, LAMBDA it : "id" \in DOMAIN it)
    IN  [k \in 1..Len(kept) |-> viu_url_result(kept[k])]

viu_playlist_entries(playlist_data) ==
    LET items == IF "item" \in DOMAIN playlist_data THEN playlist_data.item ELSE <<>>
        kept  == SelectSeq(items, LAMBDA it : TruthyInt(it, "id"))
    IN  [k \in 1..Len(kept) |-> viu_url_result(kept[k])]

ViuPlaylistIE_result(geo, token, playlist_id, status, container) ==
    LET req == call_api_request(geo, token, "container/load", <<>>)
        r   == call_api_unwrap("viu:playlist", status @@ [container |-> container])
    IN  IF r.kind # "response" THEN [log |-> <<req>>, out |-> r]
        ELSE LET playlist_data == r.response.container
             IN  [log |-> <<req>>,
                  out |-> [kind    |-> "Playlist",
                           id      |-> playlist_id,
                           title   |-> IF "title" \in DOMAIN playlist_data
                                       THEN <<playlist_data.title>> ELSE <<>>,
                           entries |-> viu_playlist_entries(playlist_data)]]

---------------------------------------------------------------------------
(* Actions of the www.viu.com session *)

OttIdle ==
    /\ ott_pc = "idle" /\ noplaylist = FALSE /\ ott_url = <<>> /\ ott_depth = 0
    /\ ott_in = NoInput /\ ott_log = <<>> /\ ott_out = NoOutcome

TvIdle ==
    /\ tv_pc = "idle" /\ tv_programme = <<>> /\ tv_url = <<>> /\ tv_depth = 0
    /\ tv_ref = <<>> /\ tv_ep = <<>> /\ tv_log = <<>> /\ tv_out = NoOutcome

ViuClasses == {"ViuBaseIE", "ViuIE", "ViuPlaylistIE"}

ViuIdle ==
    /\ viu_ie = "none"
    /\ viu_pc = "idle" /\ viu_geo = <<>> /\ auth_token = NoToken
    /\ viu_in = NoInput /\ viu_log = <<>> /\ viu_out = NoOutcome

InitViu ==
    /\ OttIdle /\ TvIdle
    /\ viu_ie \in ViuClasses
    /\ viu_pc = "new"
    /\ viu_geo \in GeoHeaderSets
    /\ auth_token = NoToken
    /\ viu_in = NoInput
    /\ viu_log = <<>>
    /\ viu_out = NoOutcome

\* ViuBaseIE._real_initialize: one handshake request; the token is read from
\* the X-VIU-AUTH response header.  A failed request raises and stores nothing.
real_initialize ==
    /\ viu_pc = "new"
    /\ viu_in' = [op |-> "real_initialize"]
    /\ viu_log' = << [url     |-> "https://www.viu.com/api/apps/v2/authenticate",
                      query   |-> AuthQuery,
                      headers |-> viu_geo] >>
    /\ \/ \E tok \in Tokens :
             /\ auth_token' = tok
             /\ viu_pc' = "ready"
             /\ viu_out' = [kind |-> "initialized"]
       \/ /\ viu_out' = [kind |-> "ExtractorError", expected |-> FALSE,
                          msg |-> "Unable to download webpage"]
          /\ UNCHANGED <<auth_token, viu_pc>>
    /\ UNCHANGED <<viu_ie, viu_geo>>
    /\ UNCHANGED <<ott_vars, tv_vars>>

\* ViuBaseIE._call_api(path, headers=kw_headers) against an envelope, called
\* any number of times on an instance of the base class.  An instance of a
\* subclass is followed through one resolution.
call_api ==
    /\ viu_ie = "ViuBaseIE"
    /\ viu_pc = "ready"
    /\ \E path \in ApiPaths, kw \in KwHeaderSets, response \in StatusDicts :
         /\ viu_in' = [op |-> "call_api", path |-> path, kw_headers |-> kw,
                       response |-> response]
         /\ viu_log' = << call_api_request(viu_geo, auth_token, path, kw) >>
         /\ viu_out' = call_api_unwrap("Viu", response)
    /\ UNCHANGED <<viu_ie, viu_pc, viu_geo, auth_token>>
    /\ UNCHANGED <<ott_vars, tv_vars>>

ViuIE_real_extract ==
    /\ viu_ie = "ViuIE"
    /\ viu_pc = "ready"
    /\ \E video_id \in VideoIds, status \in StatusDicts,
          video_data \in VideoDatas, hls \in ExtractFatal :
         LET res == ViuIE_result(viu_geo, auth_token, video_id, status, video_data, hls)
         IN  /\ viu_in' = [op |-> "ViuIE", video_id |-> video_id, status |-> status,
                           video_data |-> video_data]
             /\ viu_log' = res.log
             /\ viu_out' = res.out
    /\ viu_pc' = "done"
    /\ UNCHANGED <<viu_ie, viu_geo, auth_token>>
    /\ UNCHANGED <<ott_vars, tv_vars>>

ViuPlaylistIE_real_extract ==
    /\ viu_ie = "ViuPlaylistIE"
    /\ viu_pc = "ready"
    /\ \E playlist_id \in PlaylistIds, status \in StatusDicts, container \in Containers :
         LET res == ViuPlaylistIE_result(viu_geo, auth_token, playlist_id, status, container)
         IN  /\ viu_in' = [op |-> "ViuPlaylistIE", playlist_id |-> playlist_id,
                           status |-> status, container |-> container]
             /\ viu_log' = res.log
             /\ viu_out' = res.out
    /\ viu_pc' = "done"
    /\ UNCHANGED <<viu_ie, viu_geo, auth_token>>
    /\ UNCHANGED <<ott_vars, tv_vars>>

NextViu ==
    \/ real_initialize
    \/ call_api
    \/ ViuIE_real_extract
    \/ ViuPlaylistIE_real_extract

SpecViu == InitViu /\ [][NextViu]_vars

---------------------------------------------------------------------------
(* ViuOTTIE *)

(* A URL's text is a sequence whose elements are the literal pieces of the  *)
(* pattern ("http://www.viu.com/ott/", "/", "/vod/", "-") and, for the      *)
(* parts the pattern captures, single characters.  The URL handed to        *)
(* _real_extract is the text plus what smuggle_url attached to it, if       *)
(* anything.                                                                *)

LowerChars == {"h", "k", "r", "e", "n", "u", "s", "z"}
DigitChars == { Digits[i] : i \in 1..10 }

\* compat_str applied to a non-negative integer, as characters.
RECURSIVE digits_of(_)
digits_of(n) ==
    IF n < 10 THEN << Digits[n + 1] >>
    ELSE Append(digits_of(n \div 10), Digits[(n % 10) + 1])

\* str.strip() on a sequence of characters.
RECURSIVE lstrip(_)
lstrip(s) == IF s # <<>> /\ Head(s) = " " THEN lstrip(Tail(s)) ELSE s
RECURSIVE rstrip(_)
rstrip(s) == IF s # <<>> /\ s[Len(s)] = " " THEN rstrip(SubSeq(s, 1, Len(s) - 1)) ELSE s
strip(s) == rstrip(lstrip(s))

\* smuggle_url / unsmuggle_url (youtube_dl/utils.py): data travels with the URL
\* text and comes back unchanged; a URL without data yields the default.
smuggle_url(url, data) == [url |-> url, smuggled |-> data]
unsmuggle_url(smug_url, default) ==
    IF "smuggled" \in DOMAIN smug_url
    THEN [url |-> smug_url.url, data |-> smug_url.smuggled]
    ELSE [url |-> smug_url.url, data |-> default]

OTT_URL_HEADS ==
    {"http://www.viu.com/ott/", "https://www.viu.com/ott/",
     "http://viu.com/ott/", "https://viu.com/ott/"}

\* The end of the longest run of digits of url that starts at position i.
RECURSIVE digits_end(_, _)
digits_end(url, i) ==
    IF i + 1 <= Len(url) /\ url[i + 1] \in DigitChars THEN digits_end(url, i + 1) ELSE i

\* re.match(ViuOTTIE._VALID_URL, url): whether it matches, and its groups.
ott_match(url) ==
    IF /\ Len(url) >= 11
       /\ url[1] \in OTT_URL_HEADS
       /\ url[2] \in LowerChars /\ url[3] \in LowerChars
       /\ url[4] = "/"
       /\ url[5] \in LowerChars /\ url[6] \in LowerChars
       /\ url[7] = "-"
       /\ url[8] \in LowerChars /\ url[9] \in LowerChars
       /\ url[10] = "/vod/"
       /\ url[11] \in DigitChars
    THEN [ok |-> TRUE,
          country_code |-> SubSeq(url, 2, 3),
          lang_code    |-> SubSeq(url, 5, 9),
          id           |-> SubSeq(url, 11, digits_end(url, 11))]
    ELSE [ok |-> FALSE]

\* 'http://www.viu.com/ott/%s/%s/vod/%s/' % (country_code, lang_code, item_id)
ott_format_url(country_code, lang_code, item_id) ==
    <<"http://www.viu.com/ott/">> \o country_code \o <<"/">> \o lang_code
        \o <<"/vod/">> \o item_id \o <<"/">>

\* re.search(r'https?://[^/]+', url).group(0)
ott_origin(url) ==
    CASE url[1] = "http://www.viu.com/ott/"  -> "http://www.viu.com"
      [] url[1] = "https://www.viu.com/ott/" -> "https://www.viu.com"
      [] url[1] = "http://viu.com/ott/"      -> "http://viu.com"
      [] url[1] = "https://viu.com/ott/"     -> "https://viu.com"

\* ViuOTTIE._AREA_ID.get(country_code.upper())
AREA_ID == [HK |-> 1, SG |-> 2, TH |-> 4, PH |-> 5]
upper2(cc) ==
    CASE cc = <<"h", "k">> -> "HK"
      [] cc = <<"s", "g">> -> "SG"
      [] cc = <<"k", "r">> -> "KR"
      [] OTHER -> "??"

ott_query(country_code, video_id) ==
    LET q  == [r |-> "vod/ajax-detail", platform_flag_label |-> "web",
               product_id |-> video_id]
        cu == upper2(country_code)
    IN  IF cu \in DOMAIN AREA_ID THEN q @@ [area_id |-> AREA_ID[cu]] ELSE q

\* ---- responses

OttProductIds == {0, 7, 12}
SeriesEntries ==
    Dicts({"product_id", "number"}, [product_id |-> OttProductIds, number |-> {1, 2}])

SeriesDicts ==
    { <<>> } \cup
    { [name |-> "series"] @@ pr :
        pr \in { <<>> } \cup { [product |-> l] : l \in SeqUpTo(SeriesEntries, MaxSiblings) } }

CurrentProducts ==
    { <<>>,
      [ccs_product_id |-> "ccs1", synopsis |-> <<" ", "A", " ">>, series_id |-> "3916"],
      [ccs_product_id |-> "ccs1", synopsis |-> <<" ", "A", " ">>, series_id |-> "3916",
       subtitle |-> << [name |-> "English", url |-> "en.srt"], [name |-> "Thai"] >>] }

ProductDatas ==
    { c @@ se : c \in { <<>> } \cup { [current_product |-> x] : x \in CurrentProducts },
                se \in { <<>> } \cup { [series |-> x] : x \in SeriesDicts } }

\* 'url' of the stream data, in the order the response lists it.
StreamUrlLists ==
    { <<>>,
      << [k |-> "s720p", v |-> "u720"] >>,
      << [k |-> "s720p", v |-> "u720"], [k |-> "s240p", v |-> "u240"] >>,
      << [k |-> "hd", v |-> "uhd"] >> }
StreamDatas == { [url |-> l] : l \in StreamUrlLists } \cup { <<>> }

\* int_or_none(_search_regex(r's(\d+)p', vid_format, 'height', default=None))
ott_format(kv) ==
    LET base == [format_id |-> kv.k, url |-> kv.v, ext |-> "mp4"]
    IN  CASE kv.k = "s720p" -> base @@ [height |-> 720]
          [] kv.k = "s240p" -> base @@ [height |-> 240]
          [] OTHER          -> base

ott_formats(stream_data) ==
    LET l == IF "url" \in DOMAIN stream_data THEN stream_data.url ELSE <<>>
    IN  [i \in 1..Len(l) |-> ott_format(l[i])]

ott_subtitles(video_data) ==
    LET l    == IF "subtitle" \in DOMAIN video_data THEN video_data.subtitle ELSE <<>>
        kept == SelectSeq(l, LAMBDA sub : TruthyStr(sub, "url"))
    IN  IF kept = <<>> THEN <<>>
        ELSE [n \in { kept[i].name : i \in 1..Len(kept) } |->
                 LET mine == SelectSeq(kept, LAMBDA sub : sub.name = n)
                 IN  [i \in 1..Len(mine) |-> [url |-> mine[i].url, ext |-> "srt"]]]

\* The series-expansion test of _real_extract:
\*   not (params.get('noplaylist') or idata.get('force_noplaylist'))
TruthyFlag(d, k) == k \in DOMAIN d /\ d[k]
\* Faulty variant, used to test the sensitivity of the properties: the smuggled flag is not consulted.
ott_expands_ignores_flag(np, idata) == ~np

ott_expands(np, idata) == ~(np \/ TruthyFlag(idata, "force_noplaylist"))

\* product_data.get('current_product'); a missing one and an empty one are
\* both falsy.
ott_current(product_data) ==
    IF "current_product" \in DOMAIN product_data
    THEN product_data.current_product ELSE <<>>

\* series.get('product') of product_data.get('series', {})
ott_series(product_data) ==
    IF "series" \in DOMAIN product_data THEN product_data.series ELSE <<>>
ott_product(product_data) ==
    IF "product" \in DOMAIN ott_series(product_data)
    THEN ott_series(product_data).product ELSE <<>>

\* Faulty variant, used to test the sensitivity of the properties: the entry's URL is built without the flag.
ott_url_result_unflagged(country_code, lang_code, entry) ==
    [type   |-> "url",
     url    |-> [url |-> ott_format_url(country_code, lang_code,
                                        digits_of(entry.product_id))],
     ie_key |-> "ViuOTT",
     id     |-> digits_of(entry.product_id),
     title  |-> strip(IF "synopsis" \in DOMAIN entry THEN entry.synopsis ELSE <<>>)]

\* One entry of the series playlist.
ott_url_result(country_code, lang_code, entry) ==
    [type   |-> "url",
     url    |-> smuggle_url(ott_format_url(country_code, lang_code,
                                           digits_of(entry.product_id)),
                            [force_noplaylist |-> TRUE]),
     ie_key |-> "ViuOTT",
     id     |-> digits_of(entry.product_id),
     title  |-> strip(IF "synopsis" \in DOMAIN entry THEN entry.synopsis ELSE <<>>)]

ott_entries(country_code, lang_code, product) ==
    LET ordered == sorted(product,
                          [i \in 1..Len(product) |->
                              IF "number" \in DOMAIN product[i]
                              THEN product[i].number ELSE 0])
        kept    == SelectSeq(ordered, LAMBDA e : TruthyInt(e, "product_id"))
    IN  [i \in 1..Len(kept) |-> ott_url_result(country_code, lang_code, kept[i])]

ViuOTTIE_result(np, smug_url, product_data, stream_data) ==
    LET un   == unsmuggle_url(smug_url, <<>>)
        url  == un.url
        m    == ott_match(url)
        info == [kind  |-> "info",
                 url   |-> "http://www.viu.com/ott/%s/index.php",
                 cc    |-> m.country_code,
                 query |-> ott_query(m.country_code, m.id)]
    IN  IF ott_current(product_data) = <<>>
        THEN [log |-> <<info>>,
              out |-> [kind |-> "ExtractorError", expected |-> TRUE,
                       msg |-> "This video is not available in your region."]]
        ELSE
        LET video_data == ott_current(product_data)
        IN  IF ott_expands(np, un.data) /\ ott_product(product_data) # <<>>
            THEN [log |-> <<info>>,
                  out |-> [kind    |-> "Playlist",
                           id      |-> video_data.series_id,
                           title   |-> ott_series(product_data).name,
                           entries |-> ott_entries(m.country_code, m.lang_code,
                                                   ott_product(product_data))]]
            ELSE
            LET stream == [kind    |-> "stream",
                           url     |-> "https://d1k2us671qcoau.cloudfront.net/distribute_web_%s.php",
                           cc      |-> m.country_code,
                           query   |-> [ccs_product_id |-> video_data.ccs_product_id],
                           headers |-> [Referer |-> url, Origin |-> ott_origin(url)]]
                title  == strip(video_data.synopsis)
            IN  [log |-> <<info, stream>>,
                 out |-> [kind      |-> "MediaItem",
                          id        |-> m.id,
                          title     |-> title,
                          episode   |-> title,
                          formats   |-> sort_formats(ott_formats(stream_data)),
                          subtitles |-> ott_subtitles(video_data)]]

\* ---- actions

OttCountries == { <<"h", "k">>, <<"k", "r">> }
OttLangs     == { <<"e", "n", "-", "u", "s">> }
OttTopIds    == { <<"7">> }

InitOTT ==
    /\ ViuIdle /\ TvIdle
    /\ ott_pc = "start"
    /\ noplaylist \in BOOLEAN
    /\ \E cc \in OttCountries, lang \in OttLangs, id \in OttTopIds :
         ott_url = [url |-> ott_format_url(cc, lang, id)]
    /\ ott_depth = 0
    /\ ott_in = NoInput
    /\ ott_log = <<>>
    /\ ott_out = NoOutcome

\* ViuOTTIE._real_extract(ott_url); the two responses are the server's.
ViuOTTIE_real_extract ==
    /\ ott_pc = "start"
    /\ ott_match(ott_url.url).ok
    /\ \E product_data \in ProductDatas, stream_data \in StreamDatas :
         LET res == ViuOTTIE_result(noplaylist, ott_url, product_data, stream_data)
         IN  /\ ott_in' = [op |-> "ViuOTT", product_data |-> product_data,
                           stream_data |-> IF Len(res.log) = 2 THEN stream_data ELSE <<>>]
             /\ ott_log' = res.log
             /\ ott_out' = res.out
    /\ ott_pc' = "done"
    /\ UNCHANGED <<noplaylist, ott_url, ott_depth>>
    /\ UNCHANGED <<viu_vars, tv_vars>>

\* The host resolves one entry of the playlist it was given: the entry's URL
\* is handed to the extractor its ie_key names.
ott_resolve_entry ==
    /\ ott_pc = "done"
    /\ ott_out.kind = "Playlist"
    /\ ott_depth < MaxDepth
    /\ \E k \in 1..Len(ott_out.entries) :
         /\ ott_out.entries[k].ie_key = "ViuOTT"
         /\ ott_url' = ott_out.entries[k].url
    /\ ott_pc' = "start"
    /\ ott_depth' = ott_depth + 1
    /\ ott_in' = NoInput
    /\ ott_log' = <<>>
    /\ ott_out' = NoOutcome
    /\ UNCHANGED noplaylist
    /\ UNCHANGED <<viu_vars, tv_vars>>

NextOTT ==
    \/ ViuOTTIE_real_extract
    \/ ott_resolve_entry

SpecOTT == InitOTT /\ [][NextOTT]_vars

---------------------------------------------------------------------------
(* ViuTVIE *)

TV_URL_HEADS ==
    {"https://viu.tv/encore/", "http://viu.tv/encore/",
     "https://www.viu.tv/encore/", "http://www.viu.tv/encore/"}

\* The end of the longest run, starting after position i, of characters that
\* are not in stop.
RECURSIVE run_end(_, _, _)
run_end(url, i, stop) ==
    IF i + 1 <= Len(url) /\ url[i + 1] \notin stop THEN run_end(url, i + 1, stop) ELSE i

\* re.match(ViuTVIE._VALID_URL, url).groups():
\*   https?://(?:www\.)?viu\.tv/encore/(?P<program_slug>[^/]+)
\*       (?:/(?P<episode_slug>[^/?]+))?
\* episode_slug is None (here: no such key) when the optional group is skipped.
tv_match(url) ==
    LET pe == run_end(url, 1, {"/"})
    IN  IF ~(Len(url) >= 1 /\ url[1] \in TV_URL_HEADS /\ pe >= 2)
        THEN [ok |-> FALSE]
        ELSE LET ee == IF pe + 1 <= Len(url) /\ url[pe + 1] = "/"
                       THEN run_end(url, pe + 1, {"/", "?"}) ELSE pe + 1
             IN  IF ee >= pe + 2
                 THEN [ok |-> TRUE, program_slug |-> SubSeq(url, 2, pe),
                       episode_slug |-> SubSeq(url, pe + 2, ee)]
                 ELSE [ok |-> TRUE, program_slug |-> SubSeq(url, 2, pe)]

\* 'http://viu.tv/encore/%s/%s' % (program_slug, item_slug)
tv_format_url(program_slug, item_slug) ==
    <<"http://viu.tv/encore/">> \o program_slug \o <<"/">> \o item_slug

\* compat_str(entry.get('slug')): a missing slug becomes the text "None".
StrNone == <<"N", "o", "n", "e">>
tv_item_slug(entry) == IF "slug" \in DOMAIN entry THEN entry.slug ELSE StrNone

\* ---- responses

TvSlugs == { <<>>, <<"a">>, <<"b">> }
TvPids  == <<"p1", "p2", "p3", "p4">>

\* An episode before its productId and episodeNum are filled in: "#" stands
\* for "this episode's own id".
EpisodeShapes ==
    { sl @@ pr : sl \in { <<>> } \cup { [slug |-> x] : x \in TvSlugs },
                 pr \in { <<>> } \cup { [productId |-> x] : x \in {"", "#"} } }

\* Episode lists: the i-th episode with a productId has the i-th id; the
\* episodes either carry no episodeNum or are numbered in descending order.
tv_episodes(shapes, numbered) ==
    [i \in 1..Len(shapes) |->
        LET e == IF "productId" \in DOMAIN shapes[i] /\ shapes[i].productId = "#"
                 THEN [shapes[i] EXCEPT !.productId = TvPids[i]] ELSE shapes[i]
        IN  IF numbered THEN e @@ [episodeNum |-> Len(shapes) + 1 - i] ELSE e]

TvProgramSlug == <<"l", "d">>

Programmes ==
    { [slug |-> TvProgramSlug, programmeId |-> "prog1", title |-> "Leap Day",
       episodes |-> tv_episodes(sh, nb)] :
      sh \in SeqUpTo(EpisodeShapes, MaxEpisodes), nb \in BOOLEAN }

TvTopUrls ==
    { <<"https://viu.tv/encore/">> \o TvProgramSlug,
      <<"https://viu.tv/encore/">> \o TvProgramSlug \o <<"/">>,
      <<"https://viu.tv/encore/">> \o TvProgramSlug \o <<"/", "a">>,
      <<"https://viu.tv/encore/">> \o TvProgramSlug \o <<"/", "x", "?", "t">> }

AssetLists == { <<>>, <<"v.m3u8">>, <<"v.mpd">>, <<"v.mp4">> }
GetVodDatas ==
    { a @@ d : a \in { <<>> } \cup { [asset |-> l] : l \in AssetLists },
               d \in Dicts({"drmToken"}, [drmToken |-> {"", "tok"}]) }

\* determine_ext (youtube_dl/utils.py): the extension of the URL's path.
determine_ext(url) ==
    CASE url = "v.m3u8" -> "m3u8"
      [] url = "v.mpd"  -> "mpd"
      [] url = "v.mp4"  -> "mp4"
      [] OTHER          -> "unknown_video"

\* ---- pieces of _real_extract

tv_title(entry) == IF "episodeNameU3" \in DOMAIN entry THEN entry.episodeNameU3 ELSE ""

tv_url_result(program_slug, entry) ==
    [type   |-> "url",
     url    |-> tv_format_url(program_slug, tv_item_slug(entry)),
     ie_key |-> "ViuTV",
     id     |-> entry.productId,
     title  |-> tv_title(entry)]

tv_entries(program_slug, episodes) ==
    LET ordered == sorted(episodes,
                          [i \in 1..Len(episodes) |->
                              IF "episodeNum" \in DOMAIN episodes[i]
                              THEN episodes[i].episodeNum ELSE 0])
        kept    == SelectSeq(ordered, LAMBDA e : TruthyStr(e, "productId"))
    IN  [i \in 1..Len(kept) |-> tv_url_result(program_slug, kept[i])]

\* next((x for x in episodes if x.get('slug') == episode_slug), {})
tv_find_episode(episodes, episode_slug) ==
    LET hits == { i \in 1..Len(episodes) :
                    "slug" \in DOMAIN episodes[i] /\ episodes[i].slug = episode_slug }
    IN  IF hits = {} THEN <<>>
        ELSE episodes[CHOOSE i \in hits : \A j \in hits : i <= j]

\* Faulty variant, used to test the sensitivity of the properties: a missing manifest is replaced by a placeholder instead of None.
tv_manifest_url_placeholder(get_vod_data) ==
    IF "asset" \in DOMAIN get_vod_data /\ get_vod_data.asset # <<>>
    THEN get_vod_data.asset[1] ELSE "v.mp4"

\* next(iter(get_vod_data.get('asset', [])), None); None is written "".
tv_manifest_url(get_vod_data) ==
    IF "asset" \in DOMAIN get_vod_data /\ get_vod_data.asset # <<>>
    THEN get_vod_data.asset[1] ELSE ""

\* Faulty variant, used to test the sensitivity of the properties: the DRM token is not consulted.
tv_drm_protected_any_empty(formats, get_vod_data) ==
    formats = <<>>

\* if not formats and drm
tv_drm_protected(formats, get_vod_data) ==
    formats = <<>> /\ TruthyStr(get_vod_data, "drmToken")

\* ---- actions

InitTV ==
    /\ ViuIdle /\ OttIdle
    /\ tv_pc = "start"
    /\ tv_programme \in Programmes
    /\ tv_url \in TvTopUrls
    /\ tv_depth = 0
    /\ tv_ref = <<>>
    /\ tv_ep = <<>>
    /\ tv_log = <<>>
    /\ tv_out = NoOutcome

\* _real_extract up to the getVodURL request: the programme is downloaded;
\* without an episode slug the playlist is returned, with one the episode is
\* looked up and a missing productId ends the resolution.
tv_download_programme ==
    /\ tv_pc = "start"
    /\ tv_match(tv_url).ok
    /\ LET m        == tv_match(tv_url)
           episodes == tv_programme.episodes
       IN  /\ tv_log' = << [kind |-> "programme", program_slug |-> m.program_slug] >>
           /\ IF "episode_slug" \notin DOMAIN m
              THEN /\ tv_out' = [kind    |-> "Playlist",
                                 id      |-> tv_programme.programmeId,
                                 title   |-> tv_programme.title,
                                 entries |-> tv_entries(m.program_slug, episodes)]
                   /\ tv_pc' = "done"
                   /\ tv_ep' = <<>>
              ELSE LET ep_data == tv_find_episode(episodes, m.episode_slug)
                   IN  IF ~TruthyStr(ep_data, "productId")
                       THEN /\ tv_out' = [kind |-> "ExtractorError", expected |-> TRUE,
                                          msg |-> "Video %s does not exist"]
                            /\ tv_pc' = "done"
                            /\ tv_ep' = ep_data
                       ELSE /\ tv_out' = tv_out
                            /\ tv_pc' = "vod"
                            /\ tv_ep' = ep_data
    /\ UNCHANGED <<tv_programme, tv_url, tv_depth, tv_ref>>
    /\ UNCHANGED <<viu_vars, ott_vars>>

\* The getVodURL request and the test of its answer.
tv_get_vod_url ==
    /\ tv_pc = "vod"
    /\ \E get_vod_data \in GetVodDatas :
         /\ tv_log' = Append(tv_log,
                [kind     |-> "getVodURL",
                 payload  |-> [contentId |-> tv_ep.productId, contentType |-> "Vod",
                               deviceType |-> "ANDROID_PHONE", format |-> "HLS",
                               mode |-> "prod", productId |-> tv_ep.productId,
                               PIN |-> "password"],
                 response |-> get_vod_data])
         /\ IF tv_manifest_url(get_vod_data) = ""
            THEN /\ tv_out' = [kind |-> "ExtractorError", expected |-> TRUE,
                               msg |-> "Cannot get stream info"]
                 /\ tv_pc' = "done"
            ELSE /\ tv_out' = tv_out
                 /\ tv_pc' = "extract"
    /\ UNCHANGED <<tv_programme, tv_url, tv_depth, tv_ref, tv_ep>>
    /\ UNCHANGED <<viu_vars, ott_vars>>

\* Manifest extraction by extension, the DRM test and the result.
tv_extract_formats ==
    /\ tv_pc = "extract"
    /\ LET get_vod_data == tv_log[2].response
           manifest_url == tv_manifest_url(get_vod_data)
           ext          == determine_ext(manifest_url)
       IN  \E r \in ExtractNonFatal :
             LET formats == IF ext \in {"m3u8", "mpd"} THEN r.formats ELSE <<>>
             IN  /\ ext \notin {"m3u8", "mpd"} => r.formats = <<>>
                 /\ tv_log' = IF ext = "m3u8"
                              THEN Append(tv_log, [kind |-> "hls", url |-> manifest_url,
                                                   formats |-> formats])
                              ELSE IF ext = "mpd"
                              THEN Append(tv_log, [kind |-> "dash", url |-> manifest_url,
                                                   formats |-> formats])
                              ELSE tv_log
                 /\ tv_out' = IF tv_drm_protected(formats, get_vod_data)
                              THEN [kind |-> "ExtractorError", expected |-> TRUE,
                                    msg |-> "This video is DRM protected."]
                              ELSE [kind    |-> "MediaItem",
                                    id      |-> tv_ep.productId,
                                    title   |-> tv_title(tv_ep),
                                    episode |-> tv_title(tv_ep),
                                    formats |-> sort_formats(formats),
                                    series  |-> tv_programme.title,
                                    programme_slug |-> tv_programme.slug,
                                    slug    |-> tv_ep.slug]
    /\ tv_pc' = "done"
    /\ UNCHANGED <<tv_programme, tv_url, tv_depth, tv_ref, tv_ep>>
    /\ UNCHANGED <<viu_vars, ott_vars>>

\* The host resolves one entry of the playlist it was given.
tv_resolve_entry ==
    /\ tv_pc = "done"
    /\ tv_out.kind = "Playlist"
    /\ tv_depth < MaxDepth
    /\ \E k \in 1..Len(tv_out.entries) :
         /\ tv_out.entries[k].ie_key = "ViuTV"
         /\ tv_url' = tv_out.entries[k].url
         /\ tv_ref' = tv_out.entries[k]
    /\ tv_pc' = "start"
    /\ tv_depth' = tv_depth + 1
    /\ tv_ep' = <<>>
    /\ tv_log' = <<>>
    /\ tv_out' = NoOutcome
    /\ UNCHANGED tv_programme
    /\ UNCHANGED <<viu_vars, ott_vars>>

NextTV ==
    \/ tv_download_programme
    \/ tv_get_vod_url
    \/ tv_extract_formats
    \/ tv_resolve_entry

SpecTV == InitTV /\ [][NextTV]_vars

---------------------------------------------------------------------------
(* The module as a whole: an extractor instance of one of the classes *)

Init == InitViu \/ InitOTT \/ InitTV

Next == NextViu \/ NextOTT \/ NextTV

Spec == Init /\ [][Next]_vars

---------------------------------------------------------------------------
(* Properties of the www.viu.com session *)

\* The requests of the last operation that went through _call_api.
ApiRequests == { i \in 1..Len(viu_log) : "headers" \in DOMAIN viu_log[i] }
ViaCallApi  == viu_in.op \in {"call_api", "ViuIE", "ViuPlaylistIE"}
KwHeadersOf(in) == IF "kw_headers" \in DOMAIN in THEN in.kw_headers ELSE <<>>
IsSuccess(st)   == "status" \in DOMAIN st /\ st.status = "success"

\* C5 (as stated): for every envelope, a status other than "success" makes
\* _call_api fail with an expected ExtractorError carrying the site's message,
\* and "success" makes it return the payload; nothing else happens, also when
\* the failing envelope has no 'message' field.
C5_UnwrapOrApiError ==
    viu_in.op = "call_api" =>
        IF IsSuccess(viu_in.response)
        THEN viu_out = [kind |-> "response", response |-> viu_in.response]
        ELSE /\ viu_out.kind = "ExtractorError"
             /\ viu_out.expected
             /\ "message" \in DOMAIN viu_in.response =>
                    viu_out.msg = "Viu said: " \o viu_in.response.message

\* C6 (as stated): once the token is stored, every request _call_api issues
\* carries X-VIU-AUTH equal to the stored token, whatever headers the caller
\* supplies.
C6_HeaderAlwaysStoredToken ==
    ViaCallApi =>
        \A i \in ApiRequests :
            /\ AUTH_HEADER \in DOMAIN viu_log[i].headers
            /\ viu_log[i].headers[AUTH_HEADER] = auth_token

\* C6 (amended): every request _call_api issues carries X-VIU-AUTH; its value
\* is the stored token unless the caller's own headers contain X-VIU-AUTH, in
\* which case the caller's value is sent; and no step taken after
\* initialisation changes the stored token.
C6_HeaderStoredTokenUnlessOverridden ==
    /\ [](ViaCallApi =>
            /\ ApiRequests # {}
            /\ \A i \in ApiRequests :
                 /\ AUTH_HEADER \in DOMAIN viu_log[i].headers
                 /\ viu_log[i].headers[AUTH_HEADER] =
                        IF AUTH_HEADER \in DOMAIN KwHeadersOf(viu_in)
                        THEN KwHeadersOf(viu_in)[AUTH_HEADER]
                        ELSE auth_token)
    /\ [][viu_pc # "new" => auth_token' = auth_token]_vars

C6_Witness ==
    /\ viu_in.op = "call_api"
    /\ viu_in.kw_headers = ("Referer" :> "ref")
    /\ auth_token \in Tokens
    /\ viu_log[1].headers[AUTH_HEADER] = auth_token
    /\ viu_log[1].headers["Referer"] = "ref"

\* C7: when urlpathd or urlpath, tdirforwhole and jwhlsfile are all there
\* (present with a non-empty value), the manifest handed to the HLS extractor
\* is path/dir/file, the path being urlpathd when there and urlpath otherwise;
\* when any of the three is missing (absent or empty) it is href, unchanged.
C7_ManifestUrl ==
    (viu_in.op = "ViuIE" /\ IsSuccess(viu_in.status)) =>
        LET vd   == viu_in.video_data
            has(k) == k \in DOMAIN vd /\ vd[k] # ""
            sent == viu_log[2].url
        IN  /\ Len(viu_log) = 2
            /\ (has("urlpathd") /\ has("tdirforwhole") /\ has("jwhlsfile")) =>
                   sent = vd.urlpathd \o "/" \o vd.tdirforwhole \o "/" \o vd.jwhlsfile
            /\ (~has("urlpathd") /\ has("urlpath") /\ has("tdirforwhole") /\ has("jwhlsfile")) =>
                   sent = vd.urlpath \o "/" \o vd.tdirforwhole \o "/" \o vd.jwhlsfile
            /\ (~(has("urlpathd") \/ has("urlpath")) \/ ~has("tdirforwhole") \/ ~has("jwhlsfile")) =>
                   sent = vd.href

C7_Witness ==
    /\ viu_in.op = "ViuIE"
    /\ viu_out.kind = "MediaItem"
    /\ {"urlpathd", "urlpath", "tdirforwhole", "jwhlsfile"} \subseteq DOMAIN viu_in.video_data
    /\ viu_log[2].url = "pd/dir/jw.m3u8"

\* C8: the Playlist holds one ItemReference for each item entry that has an
\* id (present and neither empty nor zero), in response order, and none for
\* the others; the resolution issues the container/load request and nothing
\* else, in particular no clip/load request.
C8_PlaylistEntries ==
    (viu_in.op = "ViuPlaylistIE" /\ IsSuccess(viu_in.status)) =>
        LET c     == viu_in.container
            items == IF "item" \in DOMAIN c THEN c.item ELSE <<>>
            idx   == { i \in 1..Len(items) : "id" \in DOMAIN items[i] /\ items[i].id # 0 }
            pos(i) == Cardinality({ j \in idx : j <= i })
            e     == viu_out.entries
        IN  /\ viu_out.kind = "Playlist"
            /\ Len(e) = Cardinality(idx)
            /\ \A i \in idx : /\ e[pos(i)].id  = compat_str_int(items[i].id)
                               /\ e[pos(i)].url = "viu:" \o compat_str_int(items[i].id)
                               /\ e[pos(i)].type = "url"
            /\ Len(viu_log) = 1
            /\ viu_log[1].url = "https://www.viu.com/api/container/load"

C8_Witness ==
    /\ viu_in.op = "ViuPlaylistIE"
    /\ viu_out.kind = "Playlist"
    /\ "item" \in DOMAIN viu_in.container
    /\ Len(viu_in.container.item) = 5
    /\ Cardinality({ i \in 1..5 : "id" \notin DOMAIN viu_in.container.item[i] }) = 2
    /\ \A i \in 1..5 : "id" \in DOMAIN viu_in.container.item[i] =>
                           viu_in.container.item[i].id # 0
    /\ Len(viu_out.entries) = 3

---------------------------------------------------------------------------
(* Properties of ViuOTTIE *)

OttDone      == ott_pc = "done"
OttSuppress  == TruthyFlag(unsmuggle_url(ott_url, <<>>).data, "force_noplaylist")
OttSiblings  == ott_product(ott_in.product_data)
OttWithId    == { i \in 1..Len(OttSiblings) :
                    "product_id" \in DOMAIN OttSiblings[i] /\ OttSiblings[i].product_id # 0 }

\* C1 (as stated): resolving a member of a series of N siblings with expansion
\* enabled yields a Playlist of exactly N entries, and resolving any of those
\* entries yields a single MediaItem, never a Playlist.
C1_ExactlyNEntriesEachAnItem ==
    /\ (OttDone /\ ott_depth = 0 /\ ott_out.kind = "Playlist") =>
           Len(ott_out.entries) = Len(OttSiblings)
    /\ (OttDone /\ ott_depth >= 1) => ott_out.kind = "MediaItem"

\* C1 (amended): the Playlist has exactly one entry per sibling that has a
\* product_id (N when all N have one); resolving any of those entries never
\* yields a Playlist (it yields a MediaItem, or the expected "not available in
\* your region" error when its own response has no current product), so the
\* host never descends below the entries of the first playlist.
C1_EntriesWithIdAndNoReexpansion ==
    /\ (OttDone /\ ott_depth = 0 /\ ott_out.kind = "Playlist") =>
           /\ Len(ott_out.entries) = Cardinality(OttWithId)
           /\ (Cardinality(OttWithId) = Len(OttSiblings)) =>
                  Len(ott_out.entries) = Len(OttSiblings)
    /\ (OttDone /\ ott_depth >= 1) =>
           /\ ott_out.kind # "Playlist"
           /\ ott_out.kind = "MediaItem" \/
                 (ott_out.kind = "ExtractorError" /\ ott_out.expected
                    /\ ott_current(ott_in.product_data) = <<>>)
    /\ ott_depth <= 1

C1_Witness ==
    /\ OttDone
    /\ ott_depth = 1
    /\ Len(OttSiblings) = 2
    /\ Cardinality(OttWithId) = 2
    /\ ott_out.kind = "MediaItem"

\* C2: when the response has a current product, the result is a Playlist if
\* and only if 'noplaylist' is off, the smuggled suppress flag is not set and
\* the series lists sibling products; otherwise the stream-info request is
\* issued and a MediaItem is returned.  Every entry of such a Playlist carries
\* the suppress flag, set.
C2_ExpansionPolicy ==
    (OttDone /\ ott_current(ott_in.product_data) # <<>>) =>
        /\ ott_out.kind = "Playlist" <=>
              (~noplaylist /\ ~OttSuppress /\ Len(OttSiblings) > 0)
        /\ ott_out.kind = "Playlist" =>
              /\ Len(ott_log) = 1
              /\ \A k \in 1..Len(ott_out.entries) :
                    /\ "smuggled" \in DOMAIN ott_out.entries[k].url
                    /\ ott_out.entries[k].url.smuggled = [force_noplaylist |-> TRUE]
        /\ ott_out.kind # "Playlist" =>
              /\ ott_out.kind = "MediaItem"
              /\ Len(ott_log) = 2
              /\ ott_log[2].kind = "stream"

C2_Witness ==
    /\ OttDone
    /\ ott_depth = 0
    /\ ott_out.kind = "Playlist"
    /\ Len(ott_out.entries) = 2
    /\ \A k \in 1..2 : ott_out.entries[k].url.smuggled.force_noplaylist

---------------------------------------------------------------------------
(* Properties of ViuTVIE *)

TvDone     == tv_pc = "done"
TvFailed(msg) == TvDone /\ tv_out.kind = "ExtractorError" /\ tv_out.msg = msg
TvNotFound == TvFailed("Video %s does not exist")
TvNoStream == TvFailed("Cannot get stream info")
TvDrm      == TvFailed("This video is DRM protected.")

TvAsked(kinds) == { i \in 1..Len(tv_log) : tv_log[i].kind \in kinds }
TvVodAnswer    == tv_log[2].response
TvVodAnswered  == Len(tv_log) >= 2
TvManifestReturned ==
    TvVodAnswered /\ "asset" \in DOMAIN TvVodAnswer /\ TvVodAnswer.asset # <<>>
TvDrmToken ==
    IF "drmToken" \in DOMAIN TvVodAnswer THEN TvVodAnswer.drmToken ELSE ""
\* What manifest extraction yielded: nothing when no extraction ran.
TvExtracted == IF Len(tv_log) = 3 THEN tv_log[3].formats ELSE <<>>

\* C3: once a manifest was returned and extraction yielded no formats, a
\* non-empty DRM token makes the resolution fail with the expected "DRM
\* protected" error, and an empty or absent token makes it return a MediaItem
\* whose formats are empty.
C3_DrmPolicy ==
    (TvDone /\ TvManifestReturned /\ TvExtracted = <<>>) =>
        IF TvDrmToken # ""
        THEN TvDrm /\ tv_out.expected
        ELSE tv_out.kind = "MediaItem" /\ tv_out.formats = <<>>

C3_Witness ==
    /\ TvDone /\ TvManifestReturned
    /\ Len(tv_log) = 3 /\ tv_log[3].kind = "hls" /\ tv_log[3].formats = <<>>
    /\ "drmToken" \in DOMAIN TvVodAnswer /\ TvVodAnswer.drmToken = ""
    /\ tv_out.kind = "MediaItem"
    /\ tv_out.formats = <<>>

\* C4 (as stated): a URL without an episode slug returns a Playlist and issues
\* no getVodURL request, a URL with an episode slug never returns a Playlist,
\* and therefore resolving an entry of a programme's playlist never returns a
\* Playlist again.
C4_SlugDispatchEndsRecursion ==
    TvDone =>
        /\ "episode_slug" \notin DOMAIN tv_match(tv_url) =>
               tv_out.kind = "Playlist" /\ TvAsked({"getVodURL"}) = {}
        /\ "episode_slug" \in DOMAIN tv_match(tv_url) => tv_out.kind # "Playlist"
        /\ tv_depth >= 1 => tv_out.kind # "Playlist"

\* C9 (as stated): NotFoundError comes before any getVodURL request,
\* StreamInfoUnavailableError before any manifest extraction, and
\* DrmProtectedError only after a manifest was returned and extraction ran.
C9_DrmOnlyAfterExtractionRan ==
    /\ TvNotFound => TvAsked({"getVodURL"}) = {}
    /\ TvNoStream => TvAsked({"hls", "dash"}) = {}
    /\ TvDrm      => TvManifestReturned /\ TvAsked({"hls", "dash"}) # {}

\* C9 (amended): a slug that matches no episode record fails with
\* NotFoundError before any getVodURL request; a getVodURL answer without a
\* manifest fails with StreamInfoUnavailableError before any manifest
\* extraction; DrmProtectedError is raised only after a manifest was returned
\* and the extraction step was passed, in which HLS/DASH extraction ran exactly
\* when the manifest is an .m3u8/.mpd one (for any other manifest no extraction
\* is attempted and the formats are empty).  A failed resolution issues no
\* further request and keeps its outcome.
C9_FailureOrdering ==
    /\ [](/\ (tv_pc # "start" /\ "episode_slug" \in DOMAIN tv_match(tv_url)
                /\ tv_find_episode(tv_programme.episodes,
                                   tv_match(tv_url).episode_slug) = <<>>)
             => TvNotFound
          /\ TvNotFound => tv_log = << [kind |-> "programme",
                                        program_slug |-> tv_match(tv_url).program_slug] >>
          /\ (TvVodAnswered /\ ~TvManifestReturned) => TvNoStream
          /\ TvNoStream =>
                /\ Len(tv_log) = 2 /\ tv_log[2].kind = "getVodURL"
                /\ ~TvManifestReturned
          /\ TvDrm =>
                /\ TvManifestReturned
                /\ TvDrmToken # ""
                /\ tv_log[2].kind = "getVodURL"
                /\ IF determine_ext(TvVodAnswer.asset[1]) \in {"m3u8", "mpd"}
                   THEN Len(tv_log) = 3 /\ tv_log[3].kind \in {"hls", "dash"}
                                        /\ tv_log[3].formats = <<>>
                   ELSE Len(tv_log) = 2)
    /\ [][(TvDone /\ tv_out.kind = "ExtractorError") => UNCHANGED tv_vars]_vars

C9_Witness ==
    /\ TvDrm
    /\ Len(tv_log) = 3
    /\ tv_log[2].kind = "getVodURL"
    /\ tv_log[3].kind = "dash"

\* C10 (as stated): resolving an entry of the programme's playlist against
\* the same programme locates the episode record the entry was built from
\* (its productId is the entry's id) and does not fail with NotFoundError,
\* also when that record's slug is missing or shared with another episode.
C10_EntryFindsItsEpisode ==
    (tv_depth >= 1 /\ tv_pc # "start") =>
        /\ ~TvNotFound
        /\ "productId" \in DOMAIN tv_ep
        /\ tv_ep.productId = tv_ref.id

====
